---------------------------- MODULE Spec2Model ----------------------------
(***************************************************************************)
(* Model of pkg/logger (go-observability): InitLogs, Logger and the four   *)
(* line-level emitters Info / Error / Warn / Debug.                        *)
(*                                                                         *)
(* The package is a wrapper around the OpenTelemetry log SDK.  What the    *)
(* wrapper itself does (validation, defaulting, the order of the           *)
(* constructions, the installation of the global provider, the record an   *)
(* emitter builds) is translated from logger.go.  The collaborators the    *)
(* wrapper calls (resource.New, logexp.New, stdoutlog.New, the batch and   *)
(* simple processors, the provider's Shutdown, the global holder) are      *)
(* modelled at the call sites: a construction either succeeds or fails     *)
(* (an input of the action), the batch processor is a bounded queue that   *)
(* overwrites its oldest record when full and is drained by a background   *)
(* poll, the simple processor exports at once.                             *)
(*                                                                         *)
(* Durations are counted in seconds.                                       *)
(***************************************************************************)
EXTENDS Integers, Sequences, FiniteSets, TLC

VARIABLES
    environ,      \* value of OTEL_EXPORTER_OTLP_ENDPOINT in the process environment
    global,       \* logglobal's current provider: 0 = the default, else a provider id
    delegate,     \* provider the default global provider delegates to (0 = none)
    providers,    \* sequence of the LoggerProviders built by InitLogs (id = index)
    lastInit,     \* what the most recent InitLogs call was given and returned
    lastBuilt,    \* id of the provider built by the most recent successful InitLogs
    held,         \* per caller: the logger handle it holds
    now,          \* time.Now(): a logical clock, one tick per emitter call
    calls,        \* history: the emitter calls made, in order
    emitted,      \* history: the records handed to Logger.Emit, in order
    lastShutdown  \* what the most recent call of a shutdown function did

vars == <<environ, global, delegate, providers, lastInit, lastBuilt, held, now,
          calls, emitted, lastShutdown>>

-----------------------------------------------------------------------------
(* Bounds of the model *)

MaxInits == 2        \* InitLogs calls where re-initialisation is studied
MaxOneInit == 1      \* InitLogs calls where one provider is studied
MaxFewEmits == 2     \* emitter calls where their interleaving is not studied
MaxEmits == 3        \* emitter calls in all
NumCallers == 2      \* concurrent callers

Callers == 1..NumCallers

(* Program constants *)

DefaultDialTimeout == 10       \* 10 * time.Second
DefaultExportInterval == 2     \* 2 * time.Second
DefaultMaxQueueSize == 4096
DefaultEndpoint == "localhost:4317"

NoErr == "nil"
ErrServiceName == "telemetry: ServiceName is required"
ErrResource == "resource"
ErrOtlp == "otlp log exporter"
ErrStdout == "stdout log exporter"


-----------------------------------------------------------------------------
(* Config and the inputs of InitLogs *)

\* type Config: every field of the struct
Config(endpoint, insecure, name, stdout, dial, interval, queue) ==
    [Endpoint |-> endpoint, Insecure |-> insecure, ServiceName |-> name,
     ServiceVer |-> "1.0", Environment |-> "dev", LogLevel |-> "info",
     EnableStdout |-> stdout, DialTimeout |-> dial, ExportInterval |-> interval,
     MaxQueueSize |-> queue]

\* the configurations of the configuration specification: every field that
\* InitLogs tests takes its zero value and a non-zero one
AllConfigs ==
    { Config(e, TRUE, n, s, d, i, q) :
        e \in {"", "otel-collector:4317"}, n \in {"", "svc"}, s \in BOOLEAN,
        d \in {0, 5}, i \in {0, 1}, q \in {0, 2} }

\* the configurations of the lifecycle specification: small queues, so that
\* the queue bound is met
LifeConfigs ==
    { Config("", TRUE, "svc", s, 0, 0, q) : s \in BOOLEAN, q \in {1, 2} }

\* the configurations of the re-initialisation specification
ReinitConfigs ==
    { Config("", TRUE, n, s, 0, 0, 0) : n \in {"", "svc"}, s \in BOOLEAN }

EnvValues == {"", "env-collector:4317"}

\* what the calls InitLogs makes into the SDK return: whether the context is
\* already cancelled, and whether resource.New, logexp.New and stdoutlog.New
\* succeed.  A cancelled context may or may not make a construction fail.
Outcomes ==
    [ctxDone : BOOLEAN, resOk : BOOLEAN, otlpOk : BOOLEAN, stdoutOk : BOOLEAN]

-----------------------------------------------------------------------------
(* InitLogs: defaulting *)

\* a defaulting that forgets the environment variable
ResolveEndpointNoEnv(cfg, env) ==
    IF cfg.Endpoint = "" THEN DefaultEndpoint ELSE cfg.Endpoint

ResolveEndpoint(cfg, env) ==
    IF cfg.Endpoint = ""
    THEN (IF env = "" THEN DefaultEndpoint ELSE env)
    ELSE cfg.Endpoint

ResolveDialTimeout(cfg) ==
    IF cfg.DialTimeout = 0 THEN DefaultDialTimeout ELSE cfg.DialTimeout

ResolveExportInterval(cfg) ==
    IF cfg.ExportInterval = 0 THEN DefaultExportInterval ELSE cfg.ExportInterval

ResolveMaxQueueSize(cfg) ==
    IF cfg.MaxQueueSize = 0 THEN DefaultMaxQueueSize ELSE cfg.MaxQueueSize

ApplyDefaults(cfg, env) ==
    [cfg EXCEPT !.Endpoint = ResolveEndpoint(cfg, env),
                !.DialTimeout = ResolveDialTimeout(cfg),
                !.ExportInterval = ResolveExportInterval(cfg),
                !.MaxQueueSize = ResolveMaxQueueSize(cfg)]

-----------------------------------------------------------------------------
(* InitLogs: the constructions, in the order of the code.  A run is the    *)
(* record [err, steps, procs, built, installed]: the error returned so far,*)
(* the SDK calls made, the processors collected, whether the provider was  *)
(* built and whether it was installed as the global one.                   *)

StartRun ==
    [err |-> NoErr, steps |-> <<>>, procs |-> <<>>, built |-> FALSE,
     installed |-> FALSE]

ServiceNameMissing(cfg) == cfg.ServiceName = ""

\* if cfg.ServiceName == "" { return nil, errors.New(...) }
ValidateStage(st, c, out) ==
    IF ServiceNameMissing(c) THEN [st EXCEPT !.err = ErrServiceName] ELSE st

\* res, err := resource.New(ctx, ...)
ResourceStage(st, c, out) ==
    LET s1 == [st EXCEPT !.steps = Append(@, "resource.New")]
    IN  IF out.resOk THEN s1 ELSE [s1 EXCEPT !.err = ErrResource]

\* otlpExp, err := logexp.New(ctx, ...); otlpProcessor := NewBatchProcessor(...)
OtlpStage(st, c, out) ==
    LET s1 == [st EXCEPT !.steps = Append(@, "logexp.New")]
    IN  IF out.otlpOk
        THEN [s1 EXCEPT !.steps = Append(@, "NewBatchProcessor"),
                        !.procs = Append(@, "batch")]
        ELSE [s1 EXCEPT !.err = ErrOtlp]

\* a stdout block that skips the stdout processor when its exporter fails
StdoutStageSkip(st, c, out) ==
    IF ~c.EnableStdout THEN st
    ELSE LET s1 == [st EXCEPT !.steps = Append(@, "stdoutlog.New")]
         IN  IF out.stdoutOk
             THEN [s1 EXCEPT !.steps = Append(@, "NewSimpleProcessor"),
                             !.procs = Append(@, "simple")]
             ELSE s1

\* if cfg.EnableStdout { stdoutExp, err := stdoutlog.New(...); ... }
StdoutStage(st, c, out) ==
    IF ~c.EnableStdout THEN st
    ELSE LET s1 == [st EXCEPT !.steps = Append(@, "stdoutlog.New")]
         IN  IF out.stdoutOk
             THEN [s1 EXCEPT !.steps = Append(@, "NewSimpleProcessor"),
                             !.procs = Append(@, "simple")]
             ELSE [s1 EXCEPT !.err = ErrStdout]

\* lp := sdklog.NewLoggerProvider(lpOptions...); logglobal.SetLoggerProvider(lp)
ProviderStage(st, c, out) ==
    [st EXCEPT !.steps = @ \o <<"NewLoggerProvider", "SetLoggerProvider">>,
               !.built = TRUE, !.installed = TRUE]

RunStage(name, st, c, out) ==
    CASE name = "validate" -> ValidateStage(st, c, out)
      [] name = "resource" -> ResourceStage(st, c, out)
      [] name = "otlp"     -> OtlpStage(st, c, out)
      [] name = "stdout"   -> StdoutStage(st, c, out)
      [] name = "provider" -> ProviderStage(st, c, out)

\* an InitLogs that validates after it has built the resource
StageOrderLateValidate == <<"resource", "validate", "otlp", "stdout", "provider">>

\* an InitLogs that installs the provider before it adds the stdout processor
StageOrderEarlyInstall == <<"validate", "resource", "otlp", "provider", "stdout">>

\* the order of the blocks of InitLogs
StageOrder == <<"validate", "resource", "otlp", "stdout", "provider">>

\* every block returns at once when it fails: the later blocks do not run
RECURSIVE RunStages(_, _, _, _)
RunStages(order, st, c, out) ==
    IF order = <<>> \/ st.err # NoErr THEN st
    ELSE RunStages(Tail(order), RunStage(Head(order), st, c, out), c, out)

InitLogsRun(cfg, env, out) ==
    RunStages(StageOrder, StartRun, ApplyDefaults(cfg, env), out)

\* the dial options handed to logexp.New
DialOpts(c) ==
    [block |-> TRUE, minConnectTimeout |-> c.DialTimeout, insecure |-> c.Insecure]

\* the resource attributes the code sets (those of the environment, the host
\* and the SDK are not modelled)
Resource(c) ==
    [serviceName |-> c.ServiceName, serviceVersion |-> c.ServiceVer,
     environment |-> c.Environment, logLevel |-> c.LogLevel]

\* the LoggerProvider of a run: its resource, its batch processor's exporter
\* and options, its processors, and the state of its processors and sinks
NewLoggerProvider(c, procs) ==
    [resource |-> Resource(c), endpoint |-> c.Endpoint, dialOpts |-> DialOpts(c),
     exportInterval |-> c.ExportInterval, maxQueueSize |-> c.MaxQueueSize,
     processors |-> procs, stopped |-> FALSE,
     queue |-> <<>>, dropped |-> 0, lost |-> 0, accepted |-> 0,
     received |-> <<>>, stdout |-> <<>>]

\* a holder that is set once and keeps its first provider
SetLoggerProviderOnce(cur, lp) == IF cur = 0 THEN lp ELSE cur

\* logglobal.SetLoggerProvider(lp): the holder now names lp
SetLoggerProvider(cur, lp) == lp

\* the first SetLoggerProvider also makes the default provider delegate to lp
SetDelegate(cur, lp) == IF cur = 0 THEN lp ELSE cur

NoInit ==
    [n |-> 0, cfg |-> Config("", FALSE, "", FALSE, 0, 0, 0), env |-> "",
     ctxDone |-> FALSE, err |-> NoErr, steps |-> <<>>, shutdown |-> 0,
     globalBefore |-> 0, nBefore |-> 0]

NoShutdown == [n |-> 0, fn |-> 0, err |-> NoErr, queued |-> 0]

NoHandle == [kind |-> "none", prov |-> 0, name |-> ""]

Init ==
    /\ environ \in EnvValues
    /\ global = 0
    /\ delegate = 0
    /\ providers = <<>>
    /\ lastInit = NoInit
    /\ lastBuilt = 0
    /\ held = [t \in Callers |-> NoHandle]
    /\ now = 0
    /\ calls = <<>>
    /\ emitted = <<>>
    /\ lastShutdown = NoShutdown

\* func InitLogs(ctx, cfg) (func(context.Context) error, error)
InitLogs(cfg, out, bound) ==
    /\ lastInit.n < bound
    /\ LET r  == InitLogsRun(cfg, environ, out)
           id == Len(providers) + 1
       IN  /\ providers' = IF r.built
                           THEN Append(providers,
                                       NewLoggerProvider(ApplyDefaults(cfg, environ),
                                                         r.procs))
                           ELSE providers
           /\ global' = IF r.installed THEN SetLoggerProvider(global, id) ELSE global
           /\ delegate' = IF r.installed THEN SetDelegate(delegate, id) ELSE delegate
           /\ lastBuilt' = IF r.err = NoErr THEN id ELSE lastBuilt
           /\ lastInit' = [n |-> lastInit.n + 1, cfg |-> cfg, env |-> environ,
                           ctxDone |-> out.ctxDone, err |-> r.err,
                           steps |-> r.steps,
                           shutdown |-> IF r.err = NoErr THEN id ELSE 0,
                           globalBefore |-> global, nBefore |-> Len(providers)]
    /\ UNCHANGED <<environ, held, now, calls, emitted, lastShutdown>>

InitLogsAny == \E cfg \in AllConfigs, out \in Outcomes : InitLogs(cfg, out, MaxOneInit)

NextCfg == InitLogsAny

SpecCfg == Init /\ [][NextCfg]_vars

-----------------------------------------------------------------------------
(* Logger and the emitters *)

\* func Logger(name) otellog.Logger: a handle of the provider that is global
\* now.  The default provider gives a handle that forwards to the first
\* provider installed later; a provider that was shut down gives a no-op one.
Logger(name) ==
    IF global = 0 THEN [kind |-> "delegate", prov |-> 0, name |-> name]
    ELSE IF providers[global].stopped
         THEN [kind |-> "noop", prov |-> 0, name |-> name]
         ELSE [kind |-> "sdk", prov |-> global, name |-> name]

\* the provider a handle's Emit reaches (0: none, the record goes nowhere)
Target(l) ==
    CASE l.kind = "sdk"      -> l.prov
      [] l.kind = "delegate" -> delegate
      [] OTHER               -> 0

\* the batch processor's queue: a ring of maxQueueSize records that overwrites
\* its oldest record when it is full
Enqueue(p, r) ==
    IF Len(p.queue) >= p.maxQueueSize
    THEN [p EXCEPT !.queue = Append(Tail(@), r), !.dropped = @ + 1,
                   !.accepted = @ + 1]
    ELSE [p EXCEPT !.queue = Append(@, r), !.accepted = @ + 1]

\* one processor's OnEmit: nothing once the provider was shut down
OnEmit(kind, p, r) ==
    IF p.stopped THEN p
    ELSE IF kind = "batch" THEN Enqueue(p, r)
         ELSE [p EXCEPT !.stdout = Append(@, r)]

\* the provider's logger hands the record to every processor, in order
RECURSIVE ProviderEmit(_, _, _)
ProviderEmit(procs, p, r) ==
    IF procs = <<>> THEN p
    ELSE ProviderEmit(Tail(procs), OnEmit(Head(procs), p, r), r)

\* an AddAttributes that puts the attribute in front
AddAttributesFront(rattrs, a) == <<a>> \o rattrs

\* r.AddAttributes(a)
AddAttributes(rattrs, a) == Append(rattrs, a)

\* for _, a := range attrs { r.AddAttributes(a) }
RECURSIVE AddAll(_, _)
AddAll(rattrs, attrs) ==
    IF attrs = <<>> THEN rattrs
    ELSE AddAll(AddAttributes(rattrs, Head(attrs)), Tail(attrs))

\* var r otellog.Record; r.SetTimestamp; r.SetSeverity; r.SetBody; attributes
NewRecord(ts, sev, msg, attrs) ==
    [ts |-> ts, severity |-> sev, body |-> msg, attrs |-> AddAll(<<>>, attrs)]

InfoRecord(ts, msg, attrs)  == NewRecord(ts, "SeverityInfo", msg, attrs)
ErrorRecord(ts, msg, attrs) == NewRecord(ts, "SeverityError", msg, attrs)
WarnRecord(ts, msg, attrs)  == NewRecord(ts, "SeverityWarn", msg, attrs)
DebugRecord(ts, msg, attrs) == NewRecord(ts, "SeverityDebug", msg, attrs)

\* an emitter that does not call Emit
EmitCallsNone(t, l, r) == <<>>

\* an emitter that calls Emit twice
EmitCallsTwice(t, l, r) ==
    <<[caller |-> t, handle |-> l, target |-> Target(l), rec |-> r],
      [caller |-> t, handle |-> l, target |-> Target(l), rec |-> r]>>

\* l.Emit(ctx, r): the calls of Emit an emitter makes, one, with its record
EmitCalls(t, l, r) ==
    <<[caller |-> t, handle |-> l, target |-> Target(l), rec |-> r]>>

RECURSIVE EmitAll(_, _)
EmitAll(ps, es) ==
    IF es = <<>> THEN ps
    ELSE LET e == Head(es)
         IN  EmitAll(IF e.target = 0 THEN ps
                     ELSE [ps EXCEPT ![e.target] =
                               ProviderEmit(@.processors, @, e.rec)],
                     Tail(es))

\* the body the four emitters share: stamp the record, hand it to l.Emit
Emitter(t, fn, msg, attrs, r) ==
    /\ now < MaxEmits
    /\ held[t].kind # "none"
    /\ now' = now + 1
    /\ calls' = Append(calls, [caller |-> t, handle |-> held[t], fn |-> fn,
                               ts |-> now + 1, msg |-> msg, attrs |-> attrs])
    /\ emitted' = emitted \o EmitCalls(t, held[t], r)
    /\ providers' = EmitAll(providers, EmitCalls(t, held[t], r))
    /\ UNCHANGED <<environ, global, delegate, lastInit, lastBuilt, held, lastShutdown>>

Info(t, msg, attrs) ==
    Emitter(t, "Info", msg, attrs, InfoRecord(now + 1, msg, attrs))
Error(t, msg, attrs) ==
    Emitter(t, "Error", msg, attrs, ErrorRecord(now + 1, msg, attrs))
Warn(t, msg, attrs) ==
    Emitter(t, "Warn", msg, attrs, WarnRecord(now + 1, msg, attrs))
Debug(t, msg, attrs) ==
    Emitter(t, "Debug", msg, attrs, DebugRecord(now + 1, msg, attrs))

\* a caller takes a handle: l := logger.Logger(name)
GetLogger(t, name) ==
    /\ held[t] # Logger(name)
    /\ held' = [held EXCEPT ![t] = Logger(name)]
    /\ UNCHANGED <<environ, global, delegate, providers, lastInit, lastBuilt, now,
                   calls, emitted, lastShutdown>>

-----------------------------------------------------------------------------
(* The batch processor's background export and the shutdown function *)

\* the exporter sends a batch: the collector receives it, or the export fails
\* and the batch is lost
Export(p, batch, ok) ==
    IF ok THEN [p EXCEPT !.received = @ \o batch]
    ELSE [p EXCEPT !.lost = @ + Len(batch)]

\* the batch processor's poll goroutine (every ExportInterval, or when a batch
\* is full): takes the n oldest records off the queue and exports them
Poll(i, n, ok) ==
    /\ i \in 1..Len(providers)
    /\ ~providers[i].stopped
    /\ "batch" \in {providers[i].processors[k] : k \in DOMAIN providers[i].processors}
    /\ n \in 1..Len(providers[i].queue)
    /\ providers' = [providers EXCEPT ![i] =
           Export([@ EXCEPT !.queue = SubSeq(@, n + 1, Len(@))],
                  SubSeq(providers[i].queue, 1, n), ok)]
    /\ UNCHANGED <<environ, global, delegate, lastInit, lastBuilt, held, now, calls,
                   emitted, lastShutdown>>

\* a shutdown function that shuts down whichever provider is global
ShutdownTargetGlobal(i) == global

\* the provider a shutdown function shuts down: InitLogs returns lp.Shutdown,
\* a method value bound to the provider that call built
ShutdownTarget(i) == i

\* a shutdown that stops the provider and throws its queue away
ProviderShutdownNoFlush(p, ok) ==
    [p EXCEPT !.stopped = TRUE, !.queue = <<>>]

\* lp.Shutdown: stops the provider and shuts every processor down; the batch
\* processor exports what is left in its queue
ProviderShutdown(p, ok) ==
    Export([p EXCEPT !.stopped = TRUE, !.queue = <<>>], p.queue, ok)

\* a call of the function the i-th successful InitLogs returned
Shutdown(i, ok) ==
    /\ i \in 1..Len(providers)
    /\ LET j == ShutdownTarget(i)
           p == providers[j]
       IN  IF p.stopped
           THEN UNCHANGED <<providers, lastShutdown>>
           ELSE /\ providers' = [providers EXCEPT ![j] = ProviderShutdown(p, ok)]
                /\ lastShutdown' = [n |-> lastShutdown.n + 1, fn |-> i,
                                    err |-> IF ok THEN NoErr ELSE "shutdown error",
                                    queued |-> Len(p.queue)]
    /\ UNCHANGED <<environ, global, delegate, lastInit, lastBuilt, held, now, calls,
                   emitted>>

-----------------------------------------------------------------------------
(* Specifications *)

\* The pipeline specification: one provider, every construction succeeds,
\* small queues; what varies is the interleaving of the callers, the
\* background export and the shutdown function.  Each caller takes its handle
\* once; the odd callers log with Info, the even ones with Error (the four
\* emitters share their body, see Emitter).
LifeNames == {"http"}
Messages == {"m"}
NoAttrs == {<<>>}
AllOk == [ctxDone |-> FALSE, resOk |-> TRUE, otlpOk |-> TRUE, stdoutOk |-> TRUE]

InitLife ==
    /\ Init
    /\ environ = ""

\* InitLogs is called once, at startup
InitLogsLife ==
    \E cfg \in LifeConfigs : providers = <<>> /\ InitLogs(cfg, AllOk, MaxInits)
GetLoggerLife ==
    \E t \in Callers, name \in LifeNames : held[t] = NoHandle /\ GetLogger(t, name)
InfoLife  == \E t \in Callers, m \in Messages, a \in NoAttrs : t % 2 = 1 /\ Info(t, m, a)
ErrorLife == \E t \in Callers, m \in Messages, a \in NoAttrs : t % 2 = 0 /\ Error(t, m, a)
PollAny == \E i \in DOMAIN providers, n \in 1..MaxEmits, ok \in BOOLEAN : Poll(i, n, ok)
ShutdownAny == \E i \in DOMAIN providers, ok \in BOOLEAN : Shutdown(i, ok)

Next ==
    \/ InitLogsLife
    \/ GetLoggerLife
    \/ InfoLife
    \/ ErrorLife
    \/ PollAny
    \/ ShutdownAny

Spec == InitLife /\ [][Next]_vars

\* The replacement specification: InitLogs is called again while the first
\* provider is in use; one caller, which may take a new handle at any time.
SwapConfigs == { Config("", TRUE, "svc", s, 0, 0, 2) : s \in BOOLEAN }

InitLogsSwap == \E cfg \in SwapConfigs : InitLogs(cfg, AllOk, MaxInits)
GetLoggerSwap == \E name \in LifeNames : GetLogger(1, name)
InfoSwap == \E m \in Messages, a \in NoAttrs : now < MaxFewEmits /\ Info(1, m, a)

NextSwap ==
    \/ InitLogsSwap
    \/ GetLoggerSwap
    \/ InfoSwap
    \/ PollAny
    \/ ShutdownAny

SpecSwap == InitLife /\ [][NextSwap]_vars

\* The re-initialisation specification: InitLogs is called several times, and
\* every construction may fail; the shutdown functions returned may be called.
InitLogsReinit ==
    \E cfg \in ReinitConfigs, out \in Outcomes : InitLogs(cfg, out, MaxInits)

NextReinit ==
    \/ InitLogsReinit
    \/ ShutdownAny

SpecReinit == InitLife /\ [][NextReinit]_vars

\* The emitter specification: one provider; the callers log messages and
\* attribute lists through the four emitters (the odd callers with Info and
\* Warn on the "http" logger, the even ones with Error and Debug on "db").
EmitConfigs == { Config("", TRUE, "svc", TRUE, 0, 0, 0) }
Bodies == {"a", "b"}
AttrLists == {<<>>, <<"k1", "k2">>}

InitLogsEmit ==
    \E cfg \in EmitConfigs : providers = <<>> /\ InitLogs(cfg, AllOk, MaxInits)
NameOf(t) == IF t % 2 = 1 THEN "http" ELSE "db"
GetLoggerEmit ==
    \E t \in Callers : held[t] = NoHandle /\ GetLogger(t, NameOf(t))
InfoAny ==
    \E t \in Callers, m \in Bodies, a \in AttrLists :
        t % 2 = 1 /\ now < MaxFewEmits /\ Info(t, m, a)
ErrorAny ==
    \E t \in Callers, m \in Bodies, a \in AttrLists :
        t % 2 = 0 /\ now < MaxFewEmits /\ Error(t, m, a)
WarnAny ==
    \E t \in Callers, m \in Bodies, a \in AttrLists :
        t % 2 = 1 /\ now < MaxFewEmits /\ Warn(t, m, a)
DebugAny ==
    \E t \in Callers, m \in Bodies, a \in AttrLists :
        t % 2 = 0 /\ now < MaxFewEmits /\ Debug(t, m, a)

NextEmit ==
    \/ InitLogsEmit
    \/ GetLoggerEmit
    \/ InfoAny
    \/ ErrorAny
    \/ WarnAny
    \/ DebugAny

SpecEmit == InitLife /\ [][NextEmit]_vars

-----------------------------------------------------------------------------
(* Properties of InitLogs *)

Called == lastInit.n > 0
Succeeded == Called /\ lastInit.err = NoErr
Last(seq) == seq[Len(seq)]
Has(seq, x) == \E k \in DOMAIN seq : seq[k] = x

\* C1: an InitLogs call whose Config has an empty ServiceName returns a nil
\* shutdown function and a non-nil error, has made no SDK call (no resource,
\* exporter, processor or provider was built), and leaves the global provider
\* and the set of providers as they were before the call.
C1_EmptyServiceNameFailsFirst ==
    (Called /\ lastInit.cfg.ServiceName = "") =>
        /\ lastInit.shutdown = 0
        /\ lastInit.err # NoErr
        /\ lastInit.steps = <<>>
        /\ global = lastInit.globalBefore
        /\ Len(providers) = lastInit.nBefore

C1_Witness ==
    /\ Called
    /\ lastInit.cfg.ServiceName = ""
    /\ lastInit.cfg.Endpoint # ""
    /\ lastInit.cfg.EnableStdout
    /\ lastInit.cfg.MaxQueueSize # 0
    /\ lastInit.env # ""
    /\ lastInit.err = ErrServiceName

\* C2: an InitLogs call that returns an error returns a nil shutdown function
\* and has not touched the global provider; SetLoggerProvider is called only
\* on the path that returns a nil error, as the last SDK call, and then the
\* global provider is the one the call built.
C2_AtomicInstallOrFail ==
    Called =>
        /\ (lastInit.err # NoErr =>
                /\ lastInit.shutdown = 0
                /\ global = lastInit.globalBefore
                /\ ~Has(lastInit.steps, "SetLoggerProvider"))
        /\ (lastInit.err = NoErr =>
                /\ Last(lastInit.steps) = "SetLoggerProvider"
                /\ lastInit.shutdown # 0
                /\ global = lastInit.shutdown)
        /\ \A k \in DOMAIN lastInit.steps :
                lastInit.steps[k] = "SetLoggerProvider" => k = Len(lastInit.steps)

\* a failure of the last construction, with a cancelled context, after an
\* earlier call had installed a provider
C2_Witness ==
    /\ Called
    /\ lastInit.err = ErrStdout
    /\ lastInit.ctxDone
    /\ lastInit.globalBefore # 0
    /\ global = lastInit.globalBefore

\* C3: the provider a successful InitLogs builds has the endpoint of the
\* Config if it is not empty, else that of OTEL_EXPORTER_OTLP_ENDPOINT if it is
\* not empty, else "localhost:4317"; a dial timeout of 10s, an export interval
\* of 2s and a queue size of 4096 where the Config has zero, and the Config's
\* value otherwise; each whatever the other fields are.
C3_Defaulting ==
    Succeeded =>
        LET p == providers[lastInit.shutdown]
            c == lastInit.cfg
        IN  /\ p.endpoint = (IF c.Endpoint # "" THEN c.Endpoint
                             ELSE IF lastInit.env # "" THEN lastInit.env
                             ELSE "localhost:4317")
            /\ p.dialOpts.minConnectTimeout =
                   (IF c.DialTimeout = 0 THEN 10 ELSE c.DialTimeout)
            /\ p.exportInterval =
                   (IF c.ExportInterval = 0 THEN 2 ELSE c.ExportInterval)
            /\ p.maxQueueSize =
                   (IF c.MaxQueueSize = 0 THEN 4096 ELSE c.MaxQueueSize)

\* the endpoint comes from the environment, the dial timeout and the queue
\* size from the defaults, the export interval from the Config
C3_Witness ==
    /\ Succeeded
    /\ lastInit.cfg.Endpoint = ""
    /\ lastInit.env # ""
    /\ lastInit.cfg.DialTimeout = 0
    /\ lastInit.cfg.ExportInterval # 0
    /\ lastInit.cfg.MaxQueueSize = 0
    /\ providers[lastInit.shutdown].endpoint = lastInit.env
    /\ providers[lastInit.shutdown].exportInterval = lastInit.cfg.ExportInterval

\* C9: the provider a successful InitLogs installs has the batch processor
\* first, followed by the simple (stdout) processor exactly when EnableStdout
\* is true; an InitLogs whose stdoutlog.New fails (it is the last SDK call and
\* no simple processor followed) returns an error and builds no provider.
C9_ProcessorList ==
    /\ Succeeded =>
           providers[lastInit.shutdown].processors =
               (IF lastInit.cfg.EnableStdout THEN <<"batch", "simple">>
                ELSE <<"batch">>)
    /\ (Called /\ Has(lastInit.steps, "stdoutlog.New")
               /\ ~Has(lastInit.steps, "NewSimpleProcessor")) =>
           /\ lastInit.err = ErrStdout
           /\ lastInit.shutdown = 0
           /\ Len(providers) = lastInit.nBefore

C9_Witness ==
    /\ Succeeded
    /\ lastInit.cfg.EnableStdout
    /\ Len(providers[lastInit.shutdown].processors) = 2
    /\ providers[lastInit.shutdown].processors[2] = "simple"

\* C6: the global provider is always the provider the most recent successful
\* InitLogs built (the default one before any), and an InitLogs call changes no
\* provider built before: it does not shut the provider it replaces down.
C6_GlobalIsLatest ==
    /\ [](global = lastBuilt)
    /\ [][lastInit' # lastInit =>
              \A i \in DOMAIN providers : providers'[i] = providers[i]]_vars

\* two successful calls: the second provider is global, the first still runs
C6_Witness ==
    /\ Len(providers) = 2
    /\ lastInit.n = 2
    /\ global = 2
    /\ ~providers[1].stopped

-----------------------------------------------------------------------------
(* Properties of the emitters *)

SeverityOf(fn) ==
    CASE fn = "Debug" -> "SeverityDebug"
      [] fn = "Info"  -> "SeverityInfo"
      [] fn = "Warn"  -> "SeverityWarn"
      [] fn = "Error" -> "SeverityError"

Handles == {calls[k].handle : k \in DOMAIN calls}
CallsOf(t, h) == SelectSeq(calls, LAMBDA c : c.caller = t /\ c.handle = h)
HandedBy(t, h) == SelectSeq(emitted, LAMBDA e : e.caller = t /\ e.handle = h)

\* C7: for every caller and every logger handle, the records handed to the
\* handle's Emit are those of the caller's emitter calls on that handle, one
\* for each call and in the order of the calls.
C7_HandedInCallOrder ==
    \A t \in Callers, h \in Handles :
        /\ Len(HandedBy(t, h)) = Len(CallsOf(t, h))
        /\ \A k \in DOMAIN CallsOf(t, h) :
               HandedBy(t, h)[k].rec.ts = CallsOf(t, h)[k].ts

\* one caller made two calls with different emitters on one handle
C7_Witness ==
    \E t \in Callers, h \in Handles :
        /\ Len(CallsOf(t, h)) = 2
        /\ CallsOf(t, h)[1].fn # CallsOf(t, h)[2].fn
        /\ Len(HandedBy(t, h)) = 2

\* C8: every emitter call hands exactly one record to the Emit of the handle
\* it was given; the record's severity is that of the emitter, its body the
\* message and its attributes the given attributes in the given order.
C8_RecordOfCall ==
    /\ Len(emitted) = Len(calls)
    /\ \A k \in DOMAIN calls :
           /\ emitted[k].handle = calls[k].handle
           /\ emitted[k].rec.severity = SeverityOf(calls[k].fn)
           /\ emitted[k].rec.body = calls[k].msg
           /\ emitted[k].rec.attrs = calls[k].attrs

\* a Debug call with the second message and a Warn call with two attributes
C8_Witness ==
    /\ \E k \in DOMAIN calls : calls[k].fn = "Debug" /\ calls[k].msg = "b"
    /\ \E k \in DOMAIN calls :
           /\ calls[k].fn = "Warn"
           /\ calls[k].attrs = <<"k1", "k2">>
           /\ emitted[k].rec.attrs = <<"k1", "k2">>

-----------------------------------------------------------------------------
(* Properties of the pipeline: emit, background export, shutdown *)

EmittedTo(i) == Cardinality({k \in DOMAIN emitted : emitted[k].target = i})
TsOf(seq) == {seq[k].ts : k \in DOMAIN seq}
NoDuplicate(seq) == Cardinality(TsOf(seq)) = Len(seq)
\* the shutdown function was called after every emitter call on the provider,
\* and no export failed
EmitThenShutdown(i) ==
    /\ providers[i].stopped
    /\ providers[i].lost = 0
    /\ providers[i].accepted = EmittedTo(i)

\* C4 as stated: once the shutdown function has returned, the collector has
\* received exactly the records emitted, whatever the interleaving of the
\* emitter calls and the background export.
C4_ExactlyAllReceived ==
    \A i \in DOMAIN providers :
        EmitThenShutdown(i) => Len(providers[i].received) = EmittedTo(i)

\* C4 as amended: the queue never holds more than MaxQueueSize records; no
\* record is received twice and every record received or queued was emitted;
\* once the shutdown function has returned, the collector has received the
\* records emitted less those the full queue dropped, and so all of them when
\* no more records were emitted than the queue holds.
C4_AllButDroppedReceived ==
    \A i \in DOMAIN providers :
        LET p == providers[i]
        IN  /\ Len(p.queue) <= p.maxQueueSize
            /\ NoDuplicate(p.received \o p.queue)
            /\ TsOf(p.received \o p.queue) \subseteq
                   {emitted[k].rec.ts : k \in {j \in DOMAIN emitted : emitted[j].target = i}}
            /\ EmitThenShutdown(i) =>
                   /\ Len(p.received) = EmittedTo(i) - p.dropped
                   /\ EmittedTo(i) <= p.maxQueueSize =>
                          Len(p.received) = EmittedTo(i)

\* two callers emitted three records in all into a queue of two, the
\* background export ran in between, and the shutdown flushed the rest
C4_Witness ==
    \E i \in DOMAIN providers :
        /\ EmitThenShutdown(i)
        /\ providers[i].maxQueueSize = 2
        /\ providers[i].dropped = 0
        /\ Len(providers[i].received) = 3
        /\ lastShutdown.queued > 0
        /\ \A t \in Callers : \E k \in DOMAIN emitted : emitted[k].caller = t

\* C5 as stated: the first call of a shutdown function returns no error.
C5_ShutdownReturnsNil ==
    lastShutdown.n > 0 => lastShutdown.err = NoErr

\* C5 as amended: the first call of a shutdown function empties the queue of
\* the provider's batch processor and hands what was in it to the exporter;
\* it returns no error exactly when that export succeeds, and then the
\* collector has received those records.  Once it has returned, the provider
\* stays shut down, nothing more reaches the collector or stdout from it, and
\* an emitter call on it completes with its record dropped.
C5_ShutdownFlushesAndStops ==
    /\ [](\A i \in DOMAIN providers :
              providers[i].stopped => providers[i].queue = <<>>)
    /\ [][\A i \in DOMAIN providers :
              /\ (~providers[i].stopped /\ providers'[i].stopped) =>
                     /\ lastShutdown'.queued = Len(providers[i].queue)
                     /\ IF lastShutdown'.err = NoErr
                        THEN providers'[i].received =
                                 providers[i].received \o providers[i].queue
                        ELSE /\ providers'[i].received = providers[i].received
                             /\ providers'[i].lost =
                                    providers[i].lost + Len(providers[i].queue)
              /\ providers[i].stopped =>
                     /\ providers'[i].stopped
                     /\ providers'[i].received = providers[i].received
                     /\ providers'[i].stdout = providers[i].stdout
                     /\ providers'[i].queue = <<>>]_vars

\* a provider with a stdout processor was shut down with records in its
\* queue, without error, and a record was emitted on it afterwards
C5_Witness ==
    \E i \in DOMAIN providers :
        /\ providers[i].stopped
        /\ Len(providers[i].processors) = 2
        /\ lastShutdown.err = NoErr
        /\ lastShutdown.queued > 0
        /\ providers[i].lost = 0
        /\ EmittedTo(i) > providers[i].accepted
        /\ Len(providers[i].stdout) = providers[i].accepted

-----------------------------------------------------------------------------
(* Properties of a shutdown function after InitLogs was called again *)

\* the step is the first call of a shutdown function
ShutdownCalled == lastShutdown' # lastShutdown

\* the first call of the shutdown function that the fn-th successful InitLogs
\* returned shuts down the provider that call built, flushing its queue, and
\* changes neither the global provider nor any other provider
ShutdownIsBound ==
    ShutdownCalled =>
        LET fn == lastShutdown'.fn
        IN  /\ ~providers[fn].stopped
            /\ providers'[fn].stopped
            /\ providers'[fn].queue = <<>>
            /\ lastShutdown'.queued = Len(providers[fn].queue)
            /\ global' = global
            /\ \A k \in DOMAIN providers : k # fn => providers'[k] = providers[k]

\* the collector receives records of a replaced provider only in the step
\* that shuts that provider down
FlushedOnlyByShutdown ==
    \A i \in DOMAIN providers :
        (i < Len(providers) /\ providers'[i].received # providers[i].received) =>
            (~providers[i].stopped /\ providers'[i].stopped)

\* C10 as stated: a shutdown function shuts down only the provider its
\* InitLogs call built and leaves the global provider installed and running,
\* and the records buffered in a replaced provider are flushed only if its
\* shutdown function is invoked.
C10_FlushedOnlyIfShutDown ==
    [][ShutdownIsBound /\ FlushedOnlyByShutdown]_vars

\* C10 as amended: a shutdown function shuts down only the provider its
\* InitLogs call built, flushing that provider's queue, and leaves the global
\* provider and every other provider as they are; no other step stops a
\* provider.  (A replaced provider's background export keeps running until
\* then, so its buffered records may reach the collector without it.)
C10_ShutdownIsBound ==
    [][/\ ShutdownIsBound
       /\ \A i \in DOMAIN providers :
              (~providers[i].stopped /\ providers'[i].stopped) =>
                  (ShutdownCalled /\ lastShutdown'.fn = i)]_vars

\* after two successful InitLogs calls the first call's shutdown function was
\* called with a record in the first provider's queue; the second provider is
\* global, runs, and has exported a record
C10_Witness ==
    /\ Len(providers) = 2
    /\ lastShutdown.fn = 1
    /\ lastShutdown.queued > 0
    /\ providers[1].stopped
    /\ Len(providers[1].received) = 1
    /\ global = 2
    /\ ~providers[2].stopped
    /\ Len(providers[2].received) = 1

=============================================================================
